---- MODULE Spec2Model ----
(***************************************************************************)
(* Model of app.py: the student store, the time entries, the audit log and *)
(* its in-memory queue, and the undo/redo stacks, with one action per      *)
(* request handler.  Every handler is an operator from the state before    *)
(* the request to the state after it; the actions apply these operators to *)
(* the current state.                                                      *)
(***************************************************************************)
EXTENDS Integers, Sequences, FiniteSets, TLC

VARIABLES students, time_entries, action_log, action_log_queue,
          undo_stack, redo_stack, session, response, run, threads

vars == <<students, time_entries, action_log, action_log_queue,
          undo_stack, redo_stack, session, response, run, threads>>

-----------------------------------------------------------------------------
(* Bounds of the model *)

\* rows the database holds: students, time entries and audit log entries
MaxRows == 5
\* latest reading of the wall clock, in half hours
MaxTime == 2
\* students in a list that is sorted
MaxSort == 3
\* calls of log_action in one process
MaxCalls == 102
\* the entries on the undo stack up to which a request with a failing commit
\* is served
MaxStack == 2
\* requests the server's threads serve at the same time
MaxThreads == 2

Times == 0 .. MaxTime

-----------------------------------------------------------------------------
(* Values *)

\* Python's None where a string is expected
None == "None"
\* a TimeEntry whose clock_out column is NULL
NoTime == -1
\* Student.picture is NULL
NoPicture == [none |-> TRUE]
\* the browser's session holds no 'student_id'
NoSession == 0
\* request.files holds no 'picture', or one with an empty filename
NoFile == [stem |-> "", ext |-> ""]

ALLOWED_EXTENSIONS == {"png", "jpg", "jpeg", "gif"}

\* action_log_queue = deque(maxlen=100)
QueueMaxLen == 100

\* paginate(page=page, per_page=30)
PerPage == 30

\* str.lower() on the strings the requests use
Lower(x) ==
  CASE x = "PNG" -> "png" [] x = "TXT" -> "txt"
    [] x = "Ann" -> "ann" [] x = "Bob" -> "bob" [] x = "CS" -> "cs"
    [] x = "AN" -> "an" [] x = "B" -> "b" [] x = "BINARY" -> "binary"
    [] OTHER -> x

\* str.strip() on the strings the requests use
Strip(x) == CASE x = " CS " -> "CS" [] x = " " -> "" [] OTHER -> x

\* the characters of the lower-case strings the requests use; "uffff" stands
\* for the character U+FFFF
Chars(x) ==
  CASE x = "" -> <<>>
    [] x = "ann" -> <<"a", "n", "n">>
    [] x = "bob" -> <<"b", "o", "b">>
    [] x = "cs" -> <<"c", "s">>
    [] x = "an" -> <<"a", "n">>
    [] x = "b" -> <<"b">>
    [] x = "zz" -> <<"z", "z">>

\* the order of the characters by code point
Alphabet == <<"a", "b", "c", "n", "o", "s", "z", "uffff">>
Ord(c) == CHOOSE i \in DOMAIN Alphabet : Alphabet[i] = c

\* a < b for two strings given by their characters
RECURSIVE CharsLess(_, _)
CharsLess(a, b) ==
  IF b = <<>> THEN FALSE
  ELSE IF a = <<>> THEN TRUE
  ELSE IF Head(a) # Head(b) THEN Ord(Head(a)) < Ord(Head(b))
  ELSE CharsLess(Tail(a), Tail(b))

\* the lower-case strings that are sort keys, and the position of a string
\* among them: x < y for two of them exactly if StrKey(x) < StrKey(y)
KeyStrings == {"", "ann", "bob", "cs"}
StrKey(x) == Cardinality({y \in KeyStrings : CharsLess(Chars(y), Chars(x))})

\* Python's truth value of an integer
Truthy(n) == n # 0

\* x or ""
OrEmpty(x) == IF x = None THEN "" ELSE x

Max(S) == CHOOSE m \in S : \A x \in S : x <= m
Min(a, b) == IF a <= b THEN a ELSE b

\* list.pop() and list[-1]
Last(q) == q[Len(q)]
Front(q) == SubSeq(q, 1, Len(q) - 1)

\* the table with row k inserted or replaced, and with row k deleted
Put(f, k, v) == [x \in DOMAIN f \cup {k} |-> IF x = k THEN v ELSE f[x]]
Remove(f, k) == [x \in DOMAIN f \ {k} |-> f[x]]

NoStudents == [x \in {} |-> NoPicture]

\* an INTEGER PRIMARY KEY column without AUTOINCREMENT: the largest id in the
\* table plus one, so the id of a deleted last row is handed out again
NextId(ids) == IF ids = {} THEN 1 ELSE Max(ids) + 1

\* the POSTed forms of add_student and edit_student
Forms ==
  { [name |-> "Ann", program |-> "CS", total_hours |-> 2, completed_hours |-> 0,
     file |-> [stem |-> "a", ext |-> "TXT"], now |-> 0],
    [name |-> "Bob", program |-> None, total_hours |-> 1, completed_hours |-> 1,
     file |-> [stem |-> "b", ext |-> "PNG"], now |-> 1] }

-----------------------------------------------------------------------------
(* Responses *)

Flash(msg) == [status |-> 302, flash |-> msg]
Body(msg) == [status |-> 200, flash |-> msg]
NotFound == [status |-> 404, flash |-> ""]
\* an exception no handler catches
ServerError == [status |-> 500, flash |-> ""]
Redirect == [status |-> 302, flash |-> ""]

-----------------------------------------------------------------------------
(* Helper functions *)

allowed_file(file) ==
  file.ext # "" /\ Lower(file.ext) \in ALLOWED_EXTENSIONS

\* file and file.filename != '' and allowed_file(file.filename)
Uploaded(file) == file # NoFile /\ file.stem # "" /\ allowed_file(file)

\* timestamp + secure_filename(file.filename)
stored_filename(now, file) == [ts |-> now, stem |-> file.stem, ext |-> file.ext]

\* append on a deque without maxlen
DequeAppend_unbounded(q, x) == Append(q, x)

\* deque.append on a deque with maxlen
DequeAppend(q, x) ==
  IF Len(q) >= QueueMaxLen THEN Append(Tail(q), x) ELSE Append(q, x)

\* log_action that writes the entry over the latest row of the audit log
log_action_over_latest(s, action_type, student_name, student_id, details) ==
  LET action == [id |-> IF s.action_log = <<>> THEN 1 ELSE Last(s.action_log).id,
                 action_type |-> action_type,
                 student_name |-> student_name,
                 student_id |-> student_id,
                 details |-> details]
  IN [s EXCEPT !.action_log = IF @ = <<>> THEN <<action>>
                              ELSE Append(Front(@), action),
               !.action_log_queue =
                  DequeAppend(@, [id |-> action.id,
                                  action_type |-> action_type,
                                  student_name |-> student_name,
                                  student_id |-> student_id])]

log_action(s, action_type, student_name, student_id, details) ==
  LET action == [id |-> NextId({a.id : a \in {s.action_log[i] : i \in DOMAIN s.action_log}}),
                 action_type |-> action_type,
                 student_name |-> student_name,
                 student_id |-> student_id,
                 details |-> details]
  IN [s EXCEPT !.action_log = Append(@, action),
               !.action_log_queue =
                  DequeAppend(@, [id |-> action.id,
                                  action_type |-> action_type,
                                  student_name |-> student_name,
                                  student_id |-> student_id])]

\* save_to_undo_stack without redo_stack.clear()
save_to_undo_stack_keeps_redo(s, student_id, action_type, student_data) ==
  [s EXCEPT !.undo_stack = Append(@, [student_id |-> student_id,
                                      action_type |-> action_type,
                                      data |-> student_data])]

save_to_undo_stack(s, student_id, action_type, student_data) ==
  LET undo_entry == [student_id |-> student_id,
                     action_type |-> action_type,
                     data |-> student_data]
  IN [s EXCEPT !.undo_stack = Append(@, undo_entry),
               !.redo_stack = <<>>]

\* get_student_snapshot without the picture
get_student_snapshot_no_picture(id, student) ==
  [id |-> id,
   name |-> student.name,
   program |-> student.program,
   total_hours |-> student.total_hours,
   completed_hours |-> student.completed_hours,
   picture |-> NoPicture]

get_student_snapshot(id, student) ==
  [id |-> id,
   name |-> student.name,
   program |-> student.program,
   total_hours |-> student.total_hours,
   completed_hours |-> student.completed_hours,
   picture |-> student.picture]

\* the Student row written from the fields of an undo/redo entry
StudentFrom(data) ==
  [name |-> data.name,
   program |-> data.program,
   total_hours |-> data.total_hours,
   completed_hours |-> data.completed_hours,
   picture |-> data.picture]

\* the time entries are left in place
DeleteTimeEntries_none(entries, id) == entries

\* TimeEntry.query.filter_by(student_id=id).delete()
DeleteTimeEntries(entries, id) == {e \in entries : e.student_id # id}

-----------------------------------------------------------------------------
(* Merge sort *)

\* the while loop of merge and the two extend calls; i and j count from 1
RECURSIVE merge_loop(_, _, _, _, _, _, _)
merge_loop(left, right, i, j, result, key, reverse) ==
  IF i <= Len(left) /\ j <= Len(right)
  THEN IF IF reverse THEN key[left[i]] > key[right[j]]
                     ELSE key[left[i]] < key[right[j]]
       THEN merge_loop(left, right, i + 1, j, Append(result, left[i]), key, reverse)
       ELSE merge_loop(left, right, i, j + 1, Append(result, right[j]), key, reverse)
  ELSE result \o SubSeq(left, i, Len(left)) \o SubSeq(right, j, Len(right))

merge(left, right, key, reverse) ==
  merge_loop(left, right, 1, 1, <<>>, key, reverse)

\* key is the function from the elements of data to their sort keys
RECURSIVE merge_sort(_, _, _)
merge_sort(data, key, reverse) ==
  IF Len(data) <= 1 THEN data
  ELSE LET mid == Len(data) \div 2
           left == merge_sort(SubSeq(data, 1, mid), key, reverse)
           right == merge_sort(SubSeq(data, mid + 1, Len(data)), key, reverse)
       IN merge(left, right, key, reverse)

-----------------------------------------------------------------------------
(* Routes: the admin's listing *)

RECURSIVE Ascending(_)
Ascending(S) ==
  IF S = {} THEN <<>> ELSE Append(Ascending(S \ {Max(S)}), Max(S))

\* Student.query.all(): the rows in the order of their ids
StudentRows(s) ==
  LET ids == Ascending(DOMAIN s.students)
  IN [i \in DOMAIN ids |-> get_student_snapshot(ids[i], s.students[ids[i]])]

remaining_hours(x) == x.total_hours - x.completed_hours

\* total_hours and completed_hours >= total_hours
Completed(x) == Truthy(x.total_hours) /\ x.completed_hours >= x.total_hours

\* the key functions of admin_dashboard
SortKey(sort_by, x) ==
  CASE sort_by = "name" -> StrKey(Lower(x.name))
    [] sort_by = "program" -> StrKey(Lower(OrEmpty(x.program)))
    [] sort_by = "total_hours" -> x.total_hours
    [] sort_by = "completed_hours" -> x.completed_hours
    [] sort_by = "remaining_hours" -> remaining_hours(x)
    [] sort_by = "status" -> IF Completed(x) THEN 0 ELSE 1

SortNames ==
  {"name", "program", "total_hours", "completed_hours", "remaining_hours", "status"}

Range(q) == {q[i] : i \in DOMAIN q}

\* the rendered page: the students listed, by id, and the sort and the order
Page(rows, sort_by, order) ==
  [status |-> 200, flash |-> "",
   students |-> [i \in DOMAIN rows |-> rows[i].id],
   sort |-> sort_by, order |-> order]

admin_dashboard(s, args) ==
  LET students_all == StudentRows(s)
      selected_program == Strip(args.program_filter)
      selected_status == Strip(args.status_filter)
      InProgram(x) == Strip(OrEmpty(x.program)) = selected_program
      InProgress(x) == ~Completed(x)
      by_program == IF selected_program # ""
                    THEN SelectSeq(students_all, InProgram)
                    ELSE students_all
      by_status == CASE selected_status = "Completed" ->
                          SelectSeq(by_program, Completed)
                     [] selected_status = "In progress" ->
                          SelectSeq(by_program, InProgress)
                     [] OTHER -> by_program
      sort_by == args.sort
      reverse == (args.order = "desc")
      key == [x \in Range(by_status) |->
                IF sort_by \in SortNames THEN SortKey(sort_by, x) ELSE 0]
      sorted == IF sort_by \in SortNames
                THEN merge_sort(by_status, key, reverse)
                ELSE by_status
  IN [s EXCEPT !.response = Page(sorted, sort_by, args.order)]

-----------------------------------------------------------------------------
(* Routes: search and the activity log *)

\* a in b, and b.startswith(a), for two strings given by their characters
IsSubstring(a, b) ==
  \E i \in 0 .. Len(b) - Len(a) : SubSeq(b, i + 1, i + Len(a)) = a
StartsWith(b, a) == Len(a) <= Len(b) /\ SubSeq(b, 1, Len(a)) = a

linear_search_students(rows, q) ==
  LET chars == Chars(Lower(q))
      Matches(x) == \/ IsSubstring(chars, Chars(Lower(x.name)))
                    \/ IsSubstring(chars, Chars(Lower(OrEmpty(x.program))))
  IN SelectSeq(rows, Matches)

\* the first while loop of binary_prefix_search_students: the leftmost
\* position whose name is >= prefix; positions count from 1
RECURSIVE search_left(_, _, _, _, _)
search_left(names, prefix, lo, hi, left) ==
  IF lo <= hi
  THEN LET mid == (lo + hi) \div 2
       IN IF ~CharsLess(names[mid], prefix)
          THEN search_left(names, prefix, lo, mid - 1, mid)
          ELSE search_left(names, prefix, mid + 1, hi, left)
  ELSE left

\* the second while loop: the leftmost position whose name is > hi_key
RECURSIVE search_right(_, _, _, _, _)
search_right(names, hi_key, lo, hi, right) ==
  IF lo <= hi
  THEN LET mid == (lo + hi) \div 2
       IN IF CharsLess(hi_key, names[mid])
          THEN search_right(names, hi_key, lo, mid - 1, mid)
          ELSE search_right(names, hi_key, mid + 1, hi, right)
  ELSE right

binary_prefix_search_students(rows, q) ==
  LET prefix == Chars(Lower(q))
      names == [i \in DOMAIN rows |-> Chars(Lower(rows[i].name))]
      left == search_left(names, prefix, 1, Len(names), Len(names) + 1)
      hi_key == Append(prefix, "uffff")
      right == search_right(names, hi_key, 1, Len(names), Len(names) + 1)
      Starts(x) == StartsWith(Chars(Lower(x.name)), prefix)
  IN IF prefix = <<>> THEN rows
     ELSE SelectSeq(SubSeq(rows, left, right - 1), Starts)

search(s, args) ==
  LET q == Strip(args.q)
      alg == Lower(args.alg)
      rows == StudentRows(s)
      by_name == [x \in Range(rows) |-> StrKey(Lower(x.name))]
      results == IF alg = "binary"
                 THEN binary_prefix_search_students(
                        merge_sort(rows, by_name, FALSE), q)
                 ELSE linear_search_students(rows, q)
  IN IF q = "" THEN [s EXCEPT !.response = Redirect]
     ELSE IF results = <<>>
          THEN [s EXCEPT !.response = Flash("No students found")]
          ELSE [s EXCEPT !.response = Page(results, None, None)]

\* the rows of the audit log, the latest first
RECURSIVE Reverse(_)
Reverse(q) == IF q = <<>> THEN <<>> ELSE Append(Reverse(Tail(q)), Head(q))

activity_log(s, page) ==
  LET rows == Reverse(s.action_log)
      first == (page - 1) * PerPage + 1
      last == Min(page * PerPage, Len(rows))
      items == SubSeq(rows, first, last)
  IN IF page < 1 \/ (items = <<>> /\ page # 1)
     THEN [s EXCEPT !.response = NotFound]
     ELSE [s EXCEPT !.response =
             [status |-> 200, flash |-> "",
              actions |-> [i \in DOMAIN items |-> items[i].id],
              has_next |-> last < Len(rows),
              has_prev |-> page > 1,
              undo_available |-> Len(s.undo_stack) > 0,
              redo_available |-> Len(s.redo_stack) > 0]]

-----------------------------------------------------------------------------
(* Routes: students *)

add_student(s, form) ==
  LET picture_filename ==
        IF Uploaded(form.file) THEN stored_filename(form.now, form.file)
        ELSE NoPicture
      id == NextId(DOMAIN s.students)
      student_data == [name |-> form.name,
                       program |-> form.program,
                       total_hours |-> form.total_hours,
                       completed_hours |-> form.completed_hours,
                       picture |-> picture_filename]
      s1 == [s EXCEPT !.students = Put(@, id, student_data)]
      s2 == save_to_undo_stack(s1, id, "ADD", student_data)
      s3 == log_action(s2, "ADD", form.name, id,
                       [program |-> form.program,
                        total_hours |-> form.total_hours,
                        completed_hours |-> form.completed_hours,
                        picture |-> picture_filename])
  IN [s3 EXCEPT !.response = Flash("successfully added")]

\* edit_student taking the snapshot after the fields are written
edit_student_late_snapshot(s, id, form) ==
  IF id \notin DOMAIN s.students THEN [s EXCEPT !.response = NotFound]
  ELSE
    LET student == s.students[id]
        edited == [name |-> form.name,
                   program |-> form.program,
                   total_hours |-> form.total_hours,
                   completed_hours |-> form.completed_hours,
                   picture |-> IF Uploaded(form.file)
                               THEN stored_filename(form.now, form.file)
                               ELSE student.picture]
        s1 == save_to_undo_stack(s, id, "EDIT", get_student_snapshot(id, edited))
        s2 == [s1 EXCEPT !.students = Put(@, id, edited)]
        s3 == log_action(s2, "EDIT", edited.name, id,
                         [old_name |-> student.name,
                          new_name |-> edited.name,
                          program |-> edited.program,
                          total_hours |-> edited.total_hours,
                          completed_hours |-> edited.completed_hours])
    IN [s3 EXCEPT !.response = Flash("successfully updated")]

edit_student(s, id, form) ==
  IF id \notin DOMAIN s.students THEN [s EXCEPT !.response = NotFound]
  ELSE
    LET student == s.students[id]
        s1 == save_to_undo_stack(s, id, "EDIT", get_student_snapshot(id, student))
        edited == [name |-> form.name,
                   program |-> form.program,
                   total_hours |-> form.total_hours,
                   completed_hours |-> form.completed_hours,
                   picture |-> IF Uploaded(form.file)
                               THEN stored_filename(form.now, form.file)
                               ELSE student.picture]
        s2 == [s1 EXCEPT !.students = Put(@, id, edited)]
        s3 == log_action(s2, "EDIT", edited.name, id,
                         [old_name |-> student.name,
                          new_name |-> edited.name,
                          program |-> edited.program,
                          total_hours |-> edited.total_hours,
                          completed_hours |-> edited.completed_hours])
    IN [s3 EXCEPT !.response = Flash("successfully updated")]

\* delete_student without save_to_undo_stack
delete_student_no_history(s, id) ==
  IF id \notin DOMAIN s.students THEN [s EXCEPT !.response = NotFound]
  ELSE
    LET student == s.students[id]
        s2 == [s EXCEPT !.time_entries = DeleteTimeEntries(@, id),
                        !.students = Remove(@, id)]
        s3 == log_action(s2, "DELETE", student.name, id, [deleted |-> TRUE])
    IN [s3 EXCEPT !.response = Flash("successfully deleted")]

delete_student(s, id) ==
  IF id \notin DOMAIN s.students THEN [s EXCEPT !.response = NotFound]
  ELSE
    LET student == s.students[id]
        s1 == save_to_undo_stack(s, id, "DELETE", get_student_snapshot(id, student))
        s2 == [s1 EXCEPT !.time_entries = DeleteTimeEntries(@, id),
                         !.students = Remove(@, id)]
        s3 == log_action(s2, "DELETE", student.name, id, [deleted |-> TRUE])
    IN [s3 EXCEPT !.response = Flash("successfully deleted")]

-----------------------------------------------------------------------------
(* Routes: clock in and clock out on the admin path *)

OpenEntries(s, id) ==
  {e \in s.time_entries : e.student_id = id /\ e.clock_out = NoTime}

\* clock_in without the test for an open entry
clock_in_no_check(s, id, now) ==
  IF id \notin DOMAIN s.students THEN [s EXCEPT !.response = NotFound]
  ELSE [s EXCEPT !.time_entries = @ \cup
                   {[id |-> NextId({e.id : e \in s.time_entries}),
                     student_id |-> id,
                     clock_in |-> now,
                     clock_out |-> NoTime]},
                 !.response = Body("Clocked in")]

clock_in(s, id, now) ==
  IF id \notin DOMAIN s.students THEN [s EXCEPT !.response = NotFound]
  ELSE IF OpenEntries(s, id) # {}
       THEN [s EXCEPT !.response = Body("Student already clocked in.")]
       ELSE LET entry == [id |-> NextId({e.id : e \in s.time_entries}),
                          student_id |-> id,
                          clock_in |-> now,
                          clock_out |-> NoTime]
            IN [s EXCEPT !.time_entries = @ \cup {entry},
                         !.response = Body("Clocked in")]

\* clock_out that forgets the redo history
clock_out_clears_redo(s, id, now) ==
  IF id \notin DOMAIN s.students THEN [s EXCEPT !.response = NotFound]
  ELSE IF OpenEntries(s, id) = {}
       THEN [s EXCEPT !.response = Body("No active clock-in found."),
                      !.redo_stack = <<>>]
       ELSE LET open_entry == CHOOSE e \in OpenEntries(s, id) :
                                 \A o \in OpenEntries(s, id) : o.clock_in <= e.clock_in
            IN [s EXCEPT !.time_entries =
                            (@ \ {open_entry}) \cup {[open_entry EXCEPT !.clock_out = now]},
                         !.response = Body("Clocked out"),
                         !.redo_stack = <<>>]

clock_out(s, id, now) ==
  IF id \notin DOMAIN s.students THEN [s EXCEPT !.response = NotFound]
  ELSE IF OpenEntries(s, id) = {}
       THEN [s EXCEPT !.response = Body("No active clock-in found.")]
       ELSE LET open_entry == CHOOSE e \in OpenEntries(s, id) :
                                 \A o \in OpenEntries(s, id) : o.clock_in <= e.clock_in
            IN [s EXCEPT !.time_entries =
                            (@ \ {open_entry}) \cup {[open_entry EXCEPT !.clock_out = now]},
                         !.response = Body("Clocked out")]

-----------------------------------------------------------------------------
(* Routes: the student's login, and clock in and clock out on the          *)
(* self-service path                                                       *)

student_login(s, sid) ==
  IF sid = NoSession
  THEN [s EXCEPT !.response = Flash("Please select a student.")]
  ELSE IF sid \notin DOMAIN s.students
       THEN [s EXCEPT !.response = Flash("Student not found.")]
       ELSE [s EXCEPT !.session = sid, !.response = Redirect]

student_logout(s) == [s EXCEPT !.session = NoSession, !.response = Redirect]

\* round() of a duration of d half hours, in hours: halves go to the even
\* neighbour
round(d) ==
  LET whole == d \div 2
  IN IF d % 2 = 0 THEN whole
     ELSE IF whole % 2 = 0 THEN whole ELSE whole + 1

\* student_clock_in without the check of the completed hours
student_clock_in_no_limit(s, now) ==
  LET sid == s.session
  IN IF sid = NoSession THEN [s EXCEPT !.response = Redirect]
     ELSE IF sid \notin DOMAIN s.students
          THEN [s EXCEPT !.response = Flash("Student record not found.")]
          ELSE IF OpenEntries(s, sid) # {}
               THEN [s EXCEPT !.response = Flash("You are already clocked in.")]
               ELSE [s EXCEPT !.time_entries = @ \cup
                                {[id |-> NextId({e.id : e \in s.time_entries}),
                                  student_id |-> sid,
                                  clock_in |-> now,
                                  clock_out |-> NoTime]},
                              !.response = Flash("Clocked in")]

student_clock_in(s, now) ==
  LET sid == s.session
  IN IF sid = NoSession THEN [s EXCEPT !.response = Redirect]
     ELSE IF sid \notin DOMAIN s.students
          THEN [s EXCEPT !.response = Flash("Student record not found.")]
          ELSE LET student == s.students[sid]
               IN IF Truthy(student.total_hours)
                     /\ student.completed_hours >= student.total_hours
                  THEN [s EXCEPT !.response =
                          Flash("You have already completed the required hours. Clock-in is not allowed.")]
                  ELSE IF OpenEntries(s, sid) # {}
                       THEN [s EXCEPT !.response = Flash("You are already clocked in.")]
                       ELSE LET entry == [id |-> NextId({e.id : e \in s.time_entries}),
                                          student_id |-> sid,
                                          clock_in |-> now,
                                          clock_out |-> NoTime]
                            IN [s EXCEPT !.time_entries = @ \cup {entry},
                                         !.response = Flash("Clocked in")]

\* student_clock_out that closes the open entries of every student
student_clock_out_closes_all(s, now) ==
  LET sid == s.session
  IN IF sid = NoSession THEN [s EXCEPT !.response = Redirect]
     ELSE IF OpenEntries(s, sid) = {}
          THEN [s EXCEPT !.response = Flash("No active clock-in found.")]
          ELSE [s EXCEPT !.time_entries =
                           {IF e.clock_out = NoTime
                            THEN [e EXCEPT !.clock_out = now] ELSE e : e \in @},
                         !.response = Flash("Clocked out")]

student_clock_out(s, now) ==
  LET sid == s.session
  IN IF sid = NoSession THEN [s EXCEPT !.response = Redirect]
     ELSE IF OpenEntries(s, sid) = {}
          THEN [s EXCEPT !.response = Flash("No active clock-in found.")]
          ELSE LET open_entry == CHOOSE e \in OpenEntries(s, sid) :
                                    \A o \in OpenEntries(s, sid) : o.clock_in <= e.clock_in
                   duration_hours == now - open_entry.clock_in
                   closed == (s.time_entries \ {open_entry})
                               \cup {[open_entry EXCEPT !.clock_out = now]}
               IN IF ~Truthy(duration_hours)
                  THEN [s EXCEPT !.time_entries = closed,
                                 !.response = Flash("Clocked out")]
                  ELSE IF sid \notin DOMAIN s.students
                       \* student is None: the assignment raises before the commit
                       THEN [s EXCEPT !.response = ServerError]
                       ELSE [s EXCEPT !.time_entries = closed,
                                      !.students[sid].completed_hours =
                                         @ + round(duration_hours),
                                      !.response = Flash("Clocked out")]

-----------------------------------------------------------------------------
(* Routes: undo and redo *)

\* undo of an EDIT entry that moves the entry to the redo stack
undo_edit_pushes_redo(popped, undo_entry) ==
  LET student_id == undo_entry.student_id
      data == undo_entry.data
  IN IF student_id \in DOMAIN popped.students
     THEN LET s1 == [popped EXCEPT
                       !.students = Put(@, student_id, StudentFrom(data)),
                       !.response = Flash("Undo successful: Restored")]
              s2 == log_action(s1, "UNDO", data.name, student_id,
                               [original_action |-> "EDIT"])
          IN [s2 EXCEPT !.redo_stack = Append(@, undo_entry)]
     ELSE popped

\* undo, entry of type EDIT: restore the previous values
undo_edit(popped, undo_entry) ==
  LET student_id == undo_entry.student_id
      data == undo_entry.data
  IN IF student_id \in DOMAIN popped.students
     THEN LET s1 == [popped EXCEPT
                       !.students = Put(@, student_id, StudentFrom(data)),
                       !.response = Flash("Undo successful: Restored")]
          IN log_action(s1, "UNDO", data.name, student_id,
                        [original_action |-> "EDIT"])
     ELSE popped

\* undo of an ADD entry that deletes the student and keeps the time entries
undo_add_keeps_entries(popped, undo_entry) ==
  LET student_id == undo_entry.student_id
  IN IF student_id \in DOMAIN popped.students
     THEN LET student == popped.students[student_id]
              s1 == [popped EXCEPT
                       !.students = Remove(@, student_id),
                       !.response = Flash("Undo successful: Deleted")]
              s2 == log_action(s1, "UNDO", student.name, student_id,
                               [original_action |-> "ADD"])
          IN [s2 EXCEPT !.redo_stack = Append(@, undo_entry)]
     ELSE [popped EXCEPT !.response = Flash("Undo failed: Student not found"),
                         !.undo_stack = Append(@, undo_entry)]

\* undo, entry of type ADD: delete the student that was added
undo_add(popped, undo_entry) ==
  LET student_id == undo_entry.student_id
  IN IF student_id \in DOMAIN popped.students
     THEN LET student == popped.students[student_id]
              s1 == [popped EXCEPT
                       !.time_entries = DeleteTimeEntries(@, student_id),
                       !.students = Remove(@, student_id),
                       !.response = Flash("Undo successful: Deleted")]
              s2 == log_action(s1, "UNDO", student.name, student_id,
                               [original_action |-> "ADD"])
          IN [s2 EXCEPT !.redo_stack = Append(@, undo_entry)]
     ELSE [popped EXCEPT !.response = Flash("Undo failed: Student not found"),
                         !.undo_stack = Append(@, undo_entry)]

\* undo of a DELETE entry that pushes onto the redo stack only when it
\* creates the student, not when it updates the student holding the id
undo_delete_no_push(popped, undo_entry) ==
  LET student_id == undo_entry.student_id
      data == undo_entry.data
      s1 == [popped EXCEPT !.students = Put(@, student_id, StudentFrom(data)),
                           !.response = Flash("Undo successful: Restored")]
  IN IF student_id \in DOMAIN popped.students
     THEN log_action(s1, "UNDO", data.name, student_id,
                     [original_action |-> "DELETE"])
     ELSE [log_action(s1, "UNDO", data.name, student_id,
                      [original_action |-> "DELETE"])
             EXCEPT !.redo_stack = Append(@, undo_entry)]

\* undo, entry of type DELETE: restore the deleted student, or update the
\* student that holds its id
undo_delete(popped, undo_entry) ==
  LET student_id == undo_entry.student_id
      data == undo_entry.data
      s1 == [popped EXCEPT !.students = Put(@, student_id, StudentFrom(data)),
                           !.response = Flash("Undo successful: Restored")]
      s2 == log_action(s1, "UNDO", data.name, student_id,
                       [original_action |-> "DELETE"])
  IN [s2 EXCEPT !.redo_stack = Append(@, undo_entry)]

\* undo_stack.pop() and the branch of the popped entry's type
undo_pop(s) ==
  LET undo_entry == Last(s.undo_stack)
      popped == [s EXCEPT !.undo_stack = Front(@), !.response = Redirect]
  IN CASE undo_entry.action_type = "EDIT" -> undo_edit(popped, undo_entry)
       [] undo_entry.action_type = "ADD" -> undo_add(popped, undo_entry)
       [] undo_entry.action_type = "DELETE" -> undo_delete(popped, undo_entry)
       [] OTHER -> popped

\* undo that clears the redo stack when there is nothing to undo
undo_resets_redo(s) ==
  IF s.undo_stack = <<>>
  THEN [s EXCEPT !.response = Flash("Nothing to undo."), !.redo_stack = <<>>]
  ELSE undo_pop(s)

undo(s) ==
  IF s.undo_stack = <<>>
  THEN [s EXCEPT !.response = Flash("Nothing to undo.")]
  ELSE undo_pop(s)

\* redo, entry of type DELETE: delete the student again
redo_delete(popped, redo_entry) ==
  LET student_id == redo_entry.student_id
      data == redo_entry.data
  IN IF student_id \in DOMAIN popped.students
     THEN LET s1 == [popped EXCEPT
                       !.time_entries = DeleteTimeEntries(@, student_id),
                       !.students = Remove(@, student_id),
                       !.response = Flash("Redo successful: Deleted")]
              s2 == log_action(s1, "REDO", data.name, student_id,
                               [original_action |-> "DELETE"])
          IN [s2 EXCEPT !.undo_stack = Append(@, redo_entry)]
     ELSE popped

\* redo, entry of type EDIT: write the values of the entry
redo_edit(popped, redo_entry) ==
  LET student_id == redo_entry.student_id
      data == redo_entry.data
  IN IF student_id \in DOMAIN popped.students
     THEN LET s1 == [popped EXCEPT
                       !.students = Put(@, student_id, StudentFrom(data)),
                       !.response = Flash("Redo successful: Updated")]
              s2 == log_action(s1, "REDO", data.name, student_id,
                               [original_action |-> "EDIT"])
          IN [s2 EXCEPT !.undo_stack = Append(@, redo_entry)]
     ELSE popped

\* redo of an ADD entry without undo_stack.append(redo_entry)
redo_add_no_push(popped, redo_entry) ==
  LET student_id == redo_entry.student_id
      data == redo_entry.data
      s1 == [popped EXCEPT !.students = Put(@, student_id, StudentFrom(data)),
                           !.response = Flash("Redo successful: Added")]
  IN log_action(s1, "REDO", data.name, student_id, [original_action |-> "ADD"])

\* redo, entry of type ADD: add the student again, or update the student
\* that holds its id
redo_add(popped, redo_entry) ==
  LET student_id == redo_entry.student_id
      data == redo_entry.data
      s1 == [popped EXCEPT !.students = Put(@, student_id, StudentFrom(data)),
                           !.response = Flash("Redo successful: Added")]
      s2 == log_action(s1, "REDO", data.name, student_id,
                       [original_action |-> "ADD"])
  IN [s2 EXCEPT !.undo_stack = Append(@, redo_entry)]

redo(s) ==
  IF s.redo_stack = <<>>
  THEN [s EXCEPT !.response = Flash("Nothing to redo.")]
  ELSE
    LET redo_entry == Last(s.redo_stack)
        popped == [s EXCEPT !.redo_stack = Front(@), !.response = Redirect]
    IN CASE redo_entry.action_type = "DELETE" -> redo_delete(popped, redo_entry)
         [] redo_entry.action_type = "EDIT" -> redo_edit(popped, redo_entry)
         [] redo_entry.action_type = "ADD" -> redo_add(popped, redo_entry)
         [] OTHER -> popped

-----------------------------------------------------------------------------
(* Undo and redo when a call to the database raises *)

\* the calls of undo and redo that reach the database: Student.query.get, the
\* writes up to and including db.session.commit(), and the commit of
\* log_action
StoreCalls == {"get", "commit", "log_action"}

\* the calls undo makes for the entry on top of the undo stack
undo_calls(s) ==
  IF s.undo_stack = <<>> THEN {}
  ELSE LET undo_entry == Last(s.undo_stack)
       IN IF undo_entry.action_type \in {"EDIT", "ADD"}
             /\ undo_entry.student_id \notin DOMAIN s.students
          THEN {"get"}
          ELSE StoreCalls

\* the calls redo makes for the entry on top of the redo stack
redo_calls(s) ==
  IF s.redo_stack = <<>> THEN {}
  ELSE LET redo_entry == Last(s.redo_stack)
       IN IF redo_entry.action_type \in {"DELETE", "EDIT"}
             /\ redo_entry.student_id \notin DOMAIN s.students
          THEN {"get"}
          ELSE StoreCalls

\* undo whose handler leaves the popped entry off the stack
undo_raises_no_push_back(s, call) ==
  LET popped == [s EXCEPT !.undo_stack = Front(@)]
  IN IF call = "log_action"
     THEN [popped EXCEPT !.students = undo_pop(s).students,
                         !.time_entries = undo_pop(s).time_entries,
                         !.response = Flash("Undo failed: store error")]
     ELSE [popped EXCEPT !.response = Flash("Undo failed: store error")]

\* undo when `call`, one of undo_calls(s), raises: the except clause flashes
\* the error and pushes the popped entry back.  A call that raises before
\* db.session.commit() has returned leaves the tables as they were (the
\* transaction is rolled back); when the commit of log_action raises, the
\* students and time entries are committed already and no log entry is
\* written, none is queued and nothing is pushed onto the redo stack
undo_raises(s, call) ==
  LET undo_entry == Last(s.undo_stack)
      popped == [s EXCEPT !.undo_stack = Front(@)]
      committed == IF call = "log_action"
                   THEN [popped EXCEPT !.students = undo_pop(s).students,
                                       !.time_entries = undo_pop(s).time_entries]
                   ELSE popped
  IN [committed EXCEPT !.response = Flash("Undo failed: store error"),
                       !.undo_stack = Append(@, undo_entry)]

\* redo when `call`, one of redo_calls(s), raises
redo_raises(s, call) ==
  LET redo_entry == Last(s.redo_stack)
      popped == [s EXCEPT !.redo_stack = Front(@)]
      committed == IF call = "log_action"
                   THEN [popped EXCEPT !.students = redo(s).students,
                                       !.time_entries = redo(s).time_entries]
                   ELSE popped
  IN [committed EXCEPT !.response = Flash("Redo failed: store error"),
                       !.redo_stack = Append(@, redo_entry)]

-----------------------------------------------------------------------------
(* A database whose commit can raise during add, edit and delete: nothing  *)
(* in these handlers catches the exception, the response is a server       *)
(* error and the session is discarded with the tables as they were         *)

\* add_student when db.session.commit() raises: save_to_undo_stack and
\* log_action come after the commit and are not reached
add_student_raises(s, form) == [s EXCEPT !.response = ServerError]

\* edit_student when db.session.commit() raises: save_to_undo_stack has
\* run before the fields are assigned
edit_student_raises(s, id, form) ==
  LET student == s.students[id]
      s1 == save_to_undo_stack(s, id, "EDIT", get_student_snapshot(id, student))
  IN [s1 EXCEPT !.response = ServerError]

\* delete_student when db.session.commit() raises: save_to_undo_stack has
\* run before the rows are deleted
delete_student_raises(s, id) ==
  LET student == s.students[id]
      s1 == save_to_undo_stack(s, id, "DELETE", get_student_snapshot(id, student))
  IN [s1 EXCEPT !.response = ServerError]

\* undo_stack.pop() moved into the try statement: the except clause flashes
\* the error
undo_pop_empty_handled(s) ==
  [s EXCEPT !.response = Flash("Undo failed: pop from empty list")]

\* undo_stack.pop() on an empty list raises IndexError before the try
\* statement is entered: no except clause handles it, nothing is flashed or
\* pushed back, and the response is a server error
undo_pop_empty(s) == [s EXCEPT !.response = ServerError]

-----------------------------------------------------------------------------
(* The state machine *)

\* the state a request starts from
Cur == [students |-> students,
        time_entries |-> time_entries,
        action_log |-> action_log,
        action_log_queue |-> action_log_queue,
        undo_stack |-> undo_stack,
        redo_stack |-> redo_stack,
        session |-> session,
        response |-> response]

\* the database stays within the bound of the model
Bounded(r) ==
  Cardinality(DOMAIN r.students) + Cardinality(r.time_entries)
    + Len(r.action_log) <= MaxRows

\* the ids requests name: those of the students in the store, and one that
\* no student holds
Ids == DOMAIN students \cup {NextId(DOMAIN students)}

\* the latest time stamp the store holds: the wall clock does not run backwards
LatestTime(s) ==
  Max({0} \cup {e.clock_in : e \in s.time_entries}
          \cup {e.clock_out : e \in s.time_entries})

\* the tables, the stacks, the queue, the session and the response become
\* those of r
Writes(r) ==
  /\ students' = r.students
  /\ time_entries' = r.time_entries
  /\ action_log' = r.action_log
  /\ action_log_queue' = r.action_log_queue
  /\ undo_stack' = r.undo_stack
  /\ redo_stack' = r.redo_stack
  /\ session' = r.session
  /\ response' = r.response

\* the request, served in one piece, ends in state r
Ends(r) == Writes(r) /\ UNCHANGED threads

\* the request ends in state r, within the bound of the model
Becomes(r) == Bounded(r) /\ Ends(r)

\* the threads of the server that serve /undo step by step, each with its
\* position in the handler and its local undo_entry; no thread has started
Threads == 1 .. MaxThreads
IdleThread == [pc |-> "idle", undo_entry |-> None]
NoThreads == [t \in Threads |-> IdleThread]

\* run observes the requests: the students before each request of the
\* current run of successful add/edit/delete requests that is not undone
\* yet (bases), the undo calls that followed the run (undone), and the
\* students before the request that the last of these undo calls undid
RunIdle == [bases |-> <<>>, undone |-> 0, expected |-> NoStudents]

RunNext(kind) ==
  CASE kind = "op" ->
         [bases |-> IF run.undone = 0 THEN Append(run.bases, students)
                    ELSE <<students>>,
          undone |-> 0,
          expected |-> NoStudents]
    [] kind = "undo" ->
         IF run.bases # <<>>
         THEN [bases |-> Front(run.bases),
               undone |-> run.undone + 1,
               expected |-> Last(run.bases)]
         ELSE RunIdle
    [] OTHER -> RunIdle

\* the worker starts with empty stacks and an empty queue on a database that
\* is new or holds a student of an earlier run
InitialStudents ==
  { NoStudents,
    [x \in {1} |-> [name |-> "Ann", program |-> "CS", total_hours |-> 2,
                    completed_hours |-> 0, picture |-> NoPicture]] }

Init ==
  /\ students \in InitialStudents
  /\ time_entries = {}
  /\ action_log = <<>>
  /\ action_log_queue = <<>>
  /\ undo_stack = <<>>
  /\ redo_stack = <<>>
  /\ session = NoSession
  /\ response = Redirect
  /\ run = RunIdle
  /\ threads = NoThreads

AddStudent ==
  \E form \in Forms :
    /\ Becomes(add_student(Cur, form))
    /\ run' = RunNext("op")

EditStudent ==
  \E id \in Ids, form \in Forms :
    /\ Becomes(edit_student(Cur, id, form))
    /\ run' = RunNext(IF id \in DOMAIN students THEN "op" ELSE "other")

DeleteStudent ==
  \E id \in Ids :
    /\ Becomes(delete_student(Cur, id))
    /\ run' = RunNext(IF id \in DOMAIN students THEN "op" ELSE "other")

ClockIn ==
  \E id \in Ids, now \in Times :
    /\ now >= LatestTime(Cur)
    /\ Becomes(clock_in(Cur, id, now))
    /\ run' = RunNext("other")

ClockOut ==
  \E id \in Ids, now \in Times :
    /\ now >= LatestTime(Cur)
    /\ Becomes(clock_out(Cur, id, now))
    /\ run' = RunNext("other")

Undo ==
  /\ Becomes(undo(Cur))
  /\ run' = RunNext("undo")

Redo ==
  /\ Becomes(redo(Cur))
  /\ run' = RunNext("other")

Next ==
  \/ AddStudent
  \/ EditStudent
  \/ DeleteStudent
  \/ ClockIn
  \/ ClockOut
  \/ Undo
  \/ Redo

Spec == Init /\ [][Next]_vars

-----------------------------------------------------------------------------
(* Several worker processes serving the same database: each has its own    *)
(* stacks and queue, and all share the tables.  The requests another       *)
(* worker serves change the tables between two requests of this one.       *)

OtherWorker(r) ==
  /\ Bounded(r)
  /\ students' = r.students
  /\ time_entries' = r.time_entries
  /\ action_log' = r.action_log
  /\ UNCHANGED <<action_log_queue, undo_stack, redo_stack, session, response,
                 threads>>
  /\ run' = RunIdle

OtherWorkerAdd ==
  \E form \in Forms : OtherWorker(add_student(Cur, form))

OtherWorkerDelete ==
  \E id \in DOMAIN students : OtherWorker(delete_student(Cur, id))

NextShared ==
  \/ Next
  \/ OtherWorkerAdd
  \/ OtherWorkerDelete

SpecShared == Init /\ [][NextShared]_vars

-----------------------------------------------------------------------------
(* A database whose calls can raise during undo and redo *)

UndoFails ==
  \E call \in undo_calls(Cur) :
    /\ Becomes(undo_raises(Cur, call))
    /\ run' = RunNext("other")

RedoFails ==
  \E call \in redo_calls(Cur) :
    /\ Becomes(redo_raises(Cur, call))
    /\ run' = RunNext("other")

NextFaulty ==
  \/ Next
  \/ UndoFails
  \/ RedoFails

SpecFaulty == Init /\ [][NextFaulty]_vars

-----------------------------------------------------------------------------
(* The admin's routes together with the self-service routes of one browser *)

StudentLogin ==
  \E sid \in Ids \cup {NoSession} :
    /\ Becomes(student_login(Cur, sid))
    /\ run' = RunNext("other")

StudentLogout ==
  /\ Becomes(student_logout(Cur))
  /\ run' = RunNext("other")

StudentClockIn ==
  \E now \in Times :
    /\ now >= LatestTime(Cur)
    /\ Becomes(student_clock_in(Cur, now))
    /\ run' = RunNext("other")

StudentClockOut ==
  \E now \in Times :
    /\ now >= LatestTime(Cur)
    /\ Becomes(student_clock_out(Cur, now))
    /\ run' = RunNext("other")

NextPortal ==
  \/ Next
  \/ StudentLogin
  \/ StudentLogout
  \/ StudentClockIn
  \/ StudentClockOut

SpecPortal == Init /\ [][NextPortal]_vars

-----------------------------------------------------------------------------
(* The admin's listing of lists of students of every order of keys *)

\* every sort and order without a filter, and every filter with the
\* default sort and order
DashboardArgs ==
  [sort : SortNames \cup {"id"},
   order : {"asc", "desc"},
   program_filter : {""},
   status_filter : {""}]
  \cup
  [sort : {"name"},
   order : {"asc"},
   program_filter : {"", " CS "},
   status_filter : {"", "Completed", "In progress"}]

AdminDashboard ==
  \E args \in DashboardArgs :
    /\ Becomes(admin_dashboard(Cur, args))
    /\ run' = RunNext("other")

\* the students a list holds
SortStudents ==
  { [name |-> n, program |-> h.program, total_hours |-> h.total_hours,
     completed_hours |-> h.completed_hours, picture |-> NoPicture] :
      n \in {"Ann", "ann", "Bob"},
      h \in {[program |-> "CS", total_hours |-> 2, completed_hours |-> 0],
             [program |-> None, total_hours |-> 1, completed_hours |-> 1]} }

InitSort ==
  /\ students \in UNION {[1 .. n -> SortStudents] : n \in 0 .. MaxSort}
  /\ time_entries = {}
  /\ action_log = <<>>
  /\ action_log_queue = <<>>
  /\ undo_stack = <<>>
  /\ redo_stack = <<>>
  /\ session = NoSession
  /\ response = Redirect
  /\ run = RunIdle
  /\ threads = NoThreads

NextSort == AdminDashboard

SpecSort == InitSort /\ [][NextSort]_vars

-----------------------------------------------------------------------------
(* The admin's routes together with the pages that only read *)

SearchArgs == [q : {" ", "AN", "B", "zz"}, alg : {"linear", "BINARY"}]

Search ==
  \E args \in SearchArgs :
    /\ Becomes(search(Cur, args))
    /\ run' = RunNext("other")

ActivityLog ==
  \E page \in {1, 2} :
    /\ Becomes(activity_log(Cur, page))
    /\ run' = RunNext("other")

NextPages ==
  \/ Next
  \/ AdminDashboard
  \/ Search
  \/ ActivityLog

SpecPages == Init /\ [][NextPages]_vars

-----------------------------------------------------------------------------
(* A process that serves more logged requests than the queue holds *)

LoggedForm == CHOOSE form \in Forms : form.name = "Bob"

\* edit_student, as long as the process has logged fewer than MaxCalls
\* requests
LoggedEdit ==
  /\ Len(action_log) < MaxCalls
  /\ \E id \in DOMAIN students : Ends(edit_student(Cur, id, LoggedForm))
  /\ run' = RunIdle

NextQueue == LoggedEdit

SpecQueue == Init /\ [][NextQueue]_vars

-----------------------------------------------------------------------------
(* Forms whose hour fields hold any integer: int() accepts a leading sign  *)

SignedForms ==
  { [name |-> "Bob", program |-> None, total_hours |-> 1, completed_hours |-> 1,
     file |-> [stem |-> "b", ext |-> "PNG"], now |-> 1],
    [name |-> "Ann", program |-> "CS", total_hours |-> -1, completed_hours |-> -2,
     file |-> [stem |-> "a", ext |-> "TXT"], now |-> 0] }

AddSigned ==
  \E form \in SignedForms :
    /\ Becomes(add_student(Cur, form))
    /\ run' = RunNext("op")

EditSigned ==
  \E id \in Ids, form \in SignedForms :
    /\ Becomes(edit_student(Cur, id, form))
    /\ run' = RunNext(IF id \in DOMAIN students THEN "op" ELSE "other")

NextSigned ==
  \/ AddSigned
  \/ EditSigned
  \/ Undo
  \/ Redo
  \/ StudentLogin
  \/ StudentClockIn
  \/ StudentClockOut

SpecSigned == Init /\ [][NextSigned]_vars

-----------------------------------------------------------------------------
(* The admin's routes on a database whose commit can raise during add,     *)
(* edit and delete                                                         *)

\* the failed requests leave the undo stack within the bound of the model
Failed(r) == Len(r.undo_stack) <= MaxStack /\ Becomes(r)

AddStudentFails ==
  \E form \in Forms :
    /\ Failed(add_student_raises(Cur, form))
    /\ run' = RunNext("other")

EditStudentFails ==
  \E id \in DOMAIN students, form \in Forms :
    /\ Failed(edit_student_raises(Cur, id, form))
    /\ run' = RunNext("other")

DeleteStudentFails ==
  \E id \in DOMAIN students :
    /\ Failed(delete_student_raises(Cur, id))
    /\ run' = RunNext("other")

NextFaultyWrites ==
  \/ Next
  \/ AddStudentFails
  \/ EditStudentFails
  \/ DeleteStudentFails

SpecFaultyWrites == Init /\ [][NextFaultyWrites]_vars

-----------------------------------------------------------------------------
(* Threads of one process serving /undo at the same time: the stacks are   *)
(* module-level lists that no lock guards, so another thread can run       *)
(* between the test `if not undo_stack` and undo_stack.pop().  The try     *)
(* statement that follows the pop is served in one piece.                  *)

OnlyThreads == <<students, time_entries, action_log, action_log_queue,
                 undo_stack, redo_stack, session, response>>

\* `if not undo_stack`: answer that there is nothing to undo, or go on to
\* the pop
UndoCheck ==
  \E t \in Threads :
    /\ threads[t].pc = "idle"
    /\ IF undo_stack = <<>>
       THEN /\ Writes([Cur EXCEPT !.response = Flash("Nothing to undo.")])
            /\ UNCHANGED threads
       ELSE /\ threads' = [threads EXCEPT ![t].pc = "pop"]
            /\ UNCHANGED OnlyThreads
    /\ run' = RunIdle

\* undo_entry = undo_stack.pop()
UndoPop ==
  \E t \in Threads :
    /\ threads[t].pc = "pop"
    /\ IF undo_stack = <<>>
       THEN /\ Writes(undo_pop_empty(Cur))
            /\ threads' = [threads EXCEPT ![t] = IdleThread]
       ELSE /\ Writes([Cur EXCEPT !.undo_stack = Front(@)])
            /\ threads' = [threads EXCEPT ![t] = [pc |-> "try",
                                                  undo_entry |-> Last(undo_stack)]]
    /\ run' = RunIdle

\* the try statement of undo for the entry the thread has popped
UndoTry ==
  \E t \in Threads :
    /\ threads[t].pc = "try"
    /\ LET r == undo_pop([Cur EXCEPT
                            !.undo_stack = Append(@, threads[t].undo_entry)])
       IN Bounded(r) /\ Writes(r)
    /\ threads' = [threads EXCEPT ![t] = IdleThread]
    /\ run' = RunIdle

NextThreads ==
  \/ AddStudent
  \/ UndoCheck
  \/ UndoPop
  \/ UndoTry

SpecThreads == Init /\ [][NextThreads]_vars

-----------------------------------------------------------------------------
(* Properties *)

StoreAndStacks == <<students, time_entries, undo_stack, redo_stack>>
AllButResponse == <<students, time_entries, action_log, action_log_queue,
                    undo_stack, redo_stack>>

MutationFlashes ==
  {"successfully added", "successfully updated", "successfully deleted"}

\* the request just served was a successful add, edit or delete
Mutated == response'.flash \in MutationFlashes /\ response'.status = 302

LastLog == action_log[Len(action_log)]

\* C1: after n >= 1 successful add/edit/delete requests in a row followed
\* by exactly n undo requests, the students in the store (ids and all
\* fields) are what they were before the n requests.  After the k-th undo
\* that follows a run, run.expected holds the students before the last k
\* requests of the run.
C1_UndoRunRestoresStore ==
  run.undone > 0 => students = run.expected

\* two requests on a store that held a student, then two undos
C1_Witness ==
  /\ run.undone = 2
  /\ run.expected # NoStudents
  /\ students = run.expected

\* C2: every successful add, edit or delete leaves the redo stack empty,
\* whatever it held; a redo called right after it reports that there is
\* nothing to redo and changes neither the store nor the stacks.
C2_MutationClearsRedo ==
  [][ /\ (Mutated /\ (AddStudent \/ EditStudent \/ DeleteStudent))
           => redo_stack' = <<>>
      /\ (response.flash \in MutationFlashes /\ Redo)
           => /\ response' = Flash("Nothing to redo.")
              /\ UNCHANGED StoreAndStacks ]_vars

\* a student was added right after an add had been undone (the undone add
\* was on the redo stack), and the redo stack is empty
C2_Witness ==
  /\ response = Flash("successfully added")
  /\ Len(action_log) >= 3
  /\ action_log[Len(action_log) - 1].action_type = "UNDO"
  /\ action_log[Len(action_log) - 1].details = [original_action |-> "ADD"]
  /\ redo_stack = <<>>

\* C3: undo with an empty undo stack, and redo with an empty redo stack,
\* report that there is nothing to undo/redo and leave the students, the
\* time entries, the audit log, the in-memory queue and both stacks
\* unchanged.
C3_EmptyStackNoOp ==
  [][ /\ (undo_stack = <<>> /\ Undo)
           => /\ response' = Flash("Nothing to undo.")
              /\ UNCHANGED AllButResponse
      /\ (redo_stack = <<>> /\ Redo)
           => /\ response' = Flash("Nothing to redo.")
              /\ UNCHANGED AllButResponse ]_vars

\* undo was called with an empty undo stack on a store that holds a
\* student, a time entry and log entries
C3_Witness ==
  /\ response = Flash("Nothing to undo.")
  /\ undo_stack = <<>>
  /\ students # NoStudents
  /\ time_entries # {}
  /\ action_log # <<>>

\* the fields of student row `student` are those of entry data `data`
SameFields(student, data) ==
  /\ student.name = data.name
  /\ student.program = data.program
  /\ student.total_hours = data.total_hours
  /\ student.completed_hours = data.completed_hours
  /\ student.picture = data.picture

\* every student but `id` is as before the request
OthersUnchanged(id) ==
  /\ DOMAIN students' \ {id} = DOMAIN students \ {id}
  /\ \A o \in DOMAIN students \ {id} : students'[o] = students[o]

UndoTop == Last(undo_stack)
RedoTop == Last(redo_stack)

\* C4: from every state with a non-empty undo stack, the students after
\* undo, redo, undo are the students after a single undo.
C4_UndoRedoUndo ==
  undo_stack # <<>> =>
    undo(redo(undo(Cur))).students = undo(Cur).students

\* C5: undoing an EDIT entry whose student exists overwrites name, program,
\* total_hours, completed_hours and picture with the values the student had
\* right before that edit, and leaves every other student unchanged.  The
\* entry an edit pushes holds the values before the edit, entries already
\* on the stack never change, and undo writes the entry's values.
C5_UndoEditRestores ==
  [][ /\ (Mutated /\ EditStudent)
           => /\ undo_stack' = Append(undo_stack, UndoTop')
              /\ UndoTop'.action_type = "EDIT"
              /\ UndoTop'.student_id \in DOMAIN students
              /\ UndoTop'.data.id = UndoTop'.student_id
              /\ SameFields(students[UndoTop'.student_id], UndoTop'.data)
      /\ \A i \in DOMAIN undo_stack \cap DOMAIN undo_stack' :
           undo_stack'[i] = undo_stack[i]
      /\ (/\ undo_stack # <<>>
          /\ UndoTop.action_type = "EDIT"
          /\ UndoTop.student_id \in DOMAIN students
          /\ Undo)
           => /\ UndoTop.student_id \in DOMAIN students'
              /\ SameFields(students'[UndoTop.student_id], UndoTop.data)
              /\ OthersUnchanged(UndoTop.student_id) ]_vars

\* an edit that changed every field of one of two students was undone
C5_Witness ==
  /\ response = Flash("Undo successful: Restored")
  /\ Len(action_log) >= 2
  /\ LastLog.details = [original_action |-> "EDIT"]
  /\ action_log[Len(action_log) - 1].action_type = "EDIT"
  /\ action_log[Len(action_log) - 1].student_id = LastLog.student_id
  /\ action_log[Len(action_log) - 1].details.new_name # LastLog.student_name
  /\ Cardinality(DOMAIN students) = 2

\* C6: undoing an ADD entry whose student exists removes that student and
\* all its time entries and pushes the popped entry onto the redo stack; a
\* following redo recreates the student with the same id and the field
\* values given when it was added.
C6_UndoAddRemoves ==
  [][ /\ AddStudent
           => /\ undo_stack' = Append(undo_stack, UndoTop')
              /\ UndoTop'.action_type = "ADD"
              /\ DOMAIN students' = DOMAIN students \cup {UndoTop'.student_id}
              /\ UndoTop'.student_id \notin DOMAIN students
              /\ SameFields(students'[UndoTop'.student_id], UndoTop'.data)
      /\ (/\ undo_stack # <<>>
          /\ UndoTop.action_type = "ADD"
          /\ UndoTop.student_id \in DOMAIN students
          /\ Undo)
           => /\ UndoTop.student_id \notin DOMAIN students'
              /\ OthersUnchanged(UndoTop.student_id)
              /\ time_entries' =
                   {e \in time_entries : e.student_id # UndoTop.student_id}
              /\ undo_stack' = Front(undo_stack)
              /\ redo_stack' = Append(redo_stack, UndoTop)
      /\ (/\ redo_stack # <<>>
          /\ RedoTop.action_type = "ADD"
          /\ Redo)
           => /\ UndoTop' = RedoTop
              /\ RedoTop.student_id \in DOMAIN students'
              /\ SameFields(students'[RedoTop.student_id], RedoTop.data)
              /\ OthersUnchanged(RedoTop.student_id) ]_vars

\* an add was undone and then redone: the student is back under its id
C6_Witness ==
  /\ response = Flash("Redo successful: Added")
  /\ Len(action_log) >= 3
  /\ action_log[Len(action_log) - 1].details = [original_action |-> "ADD"]
  /\ action_log[Len(action_log) - 1].action_type = "UNDO"
  /\ action_log[Len(action_log) - 2].action_type = "ADD"
  /\ UndoTop.student_id \in DOMAIN students
  /\ SameFields(students[UndoTop.student_id], UndoTop.data)

\* the state the request just served ended in
CurNext == [students |-> students',
            time_entries |-> time_entries',
            action_log |-> action_log',
            action_log_queue |-> action_log_queue',
            undo_stack |-> undo_stack',
            redo_stack |-> redo_stack',
            session |-> session',
            response |-> response']

UndoFlashes ==
  {"Undo successful: Restored", "Undo successful: Deleted"}
RedoFlashes ==
  {"Redo successful: Deleted", "Redo successful: Updated", "Redo successful: Added"}
FailureFlashes ==
  {"Undo failed: Student not found", "Redo failed: Student not found"}

\* C7: undoing a DELETE entry makes a student with the entry's id exist
\* with the field values it had just before the delete, created when the
\* id is absent and overwritten when a student holds that id; in both cases
\* the popped entry is pushed onto the redo stack.  The entry a delete
\* pushes holds the values before the delete, and entries on the stack
\* never change.
C7_UndoDeleteRestores ==
  [][ /\ (Mutated /\ DeleteStudent)
           => /\ undo_stack' = Append(undo_stack, UndoTop')
              /\ UndoTop'.action_type = "DELETE"
              /\ UndoTop'.student_id \in DOMAIN students
              /\ UndoTop'.student_id \notin DOMAIN students'
              /\ UndoTop'.data.id = UndoTop'.student_id
              /\ SameFields(students[UndoTop'.student_id], UndoTop'.data)
      /\ \A i \in DOMAIN undo_stack \cap DOMAIN undo_stack' :
           undo_stack'[i] = undo_stack[i]
      /\ (/\ undo_stack # <<>>
          /\ UndoTop.action_type = "DELETE"
          /\ Undo)
           => /\ response' = Flash("Undo successful: Restored")
              /\ UndoTop.student_id \in DOMAIN students'
              /\ SameFields(students'[UndoTop.student_id], UndoTop.data)
              /\ OthersUnchanged(UndoTop.student_id)
              /\ undo_stack' = Front(undo_stack)
              /\ redo_stack' = Append(redo_stack, UndoTop) ]_vars

\* a delete was undone while a student added since then by another worker
\* held the id: that student now has the values of before the delete
C7_Witness ==
  /\ response = Flash("Undo successful: Restored")
  /\ Len(action_log) >= 3
  /\ LastLog.details = [original_action |-> "DELETE"]
  /\ action_log[Len(action_log) - 1].action_type = "ADD"
  /\ action_log[Len(action_log) - 1].student_id = LastLog.student_id
  /\ action_log[Len(action_log) - 1].student_name # LastLog.student_name
  /\ redo_stack # <<>>
  /\ RedoTop.action_type = "DELETE"
  /\ SameFields(students[RedoTop.student_id], RedoTop.data)

\* C8: after a student is edited and the edit is undone, redo re-applies
\* the edit: the student's fields become the values the edit had written.
\* (The audit log holds the values an edit wrote: they are the details of
\* its EDIT entry.)
C8_RedoReappliesEdit ==
  (/\ response = Flash("Nothing to redo.") \/ response.flash \in RedoFlashes
   /\ Len(action_log) >= 2
   /\ LastLog.action_type = "UNDO"
   /\ LastLog.details = [original_action |-> "EDIT"]
   /\ action_log[Len(action_log) - 1].action_type = "EDIT"
   /\ action_log[Len(action_log) - 1].student_id = LastLog.student_id)
    => LET written == action_log[Len(action_log) - 1].details
           student == students[LastLog.student_id]
       IN /\ student.name = written.new_name
          /\ student.program = written.program
          /\ student.total_hours = written.total_hours
          /\ student.completed_hours = written.completed_hours

\* C9: every successful redo removes the top entry of the redo stack and
\* pushes that entry on top of the undo stack, leaving the other entries of
\* both stacks in place, so that the next undo undoes the redone action.
C9_RedoMovesEntry ==
  [][ (response'.flash \in RedoFlashes /\ Redo)
        => /\ redo_stack # <<>>
           /\ redo_stack' = Front(redo_stack)
           /\ undo_stack' = Append(undo_stack, RedoTop)
           /\ undo(CurNext).response.flash \in UndoFlashes
           /\ undo(CurNext).undo_stack = undo_stack
           /\ undo(CurNext).redo_stack = redo_stack ]_vars

\* a delete was redone with another entry below it on the undo stack
C9_Witness ==
  /\ response = Flash("Redo successful: Deleted")
  /\ Len(undo_stack) >= 2
  /\ UndoTop.action_type = "DELETE"
  /\ LastLog.action_type = "REDO"

\* C10: when undo pops an EDIT or ADD entry, or redo pops an EDIT or DELETE
\* entry, whose student is missing from the store, the entry is pushed back
\* onto the stack it came from and a failure is reported: both stacks end
\* as they were before the call.
C10_MissingStudentPushesBack ==
  [][ /\ (/\ undo_stack # <<>>
          /\ UndoTop.action_type \in {"EDIT", "ADD"}
          /\ UndoTop.student_id \notin DOMAIN students
          /\ Undo)
           => /\ UNCHANGED <<undo_stack, redo_stack>>
              /\ response'.flash \in FailureFlashes
      /\ (/\ redo_stack # <<>>
          /\ RedoTop.action_type \in {"EDIT", "DELETE"}
          /\ RedoTop.student_id \notin DOMAIN students
          /\ Redo)
           => /\ UNCHANGED <<undo_stack, redo_stack>>
              /\ response'.flash \in FailureFlashes ]_vars

StoreFailureFlashes ==
  {"Undo failed: store error", "Redo failed: store error"}

\* C11: when a call to the database made during undo or redo raises (the
\* read of the student, a write, the commit, or the write of the audit
\* log), the handler catches the error and reports a failure, and the undo
\* stack and the redo stack are exactly what they were before the request.
C11_StoreFailureKeepsStacks ==
  [][ (UndoFails \/ RedoFails)
        => /\ response'.flash \in StoreFailureFlashes
           /\ response'.status = 302
           /\ UNCHANGED <<undo_stack, redo_stack>> ]_vars

\* the write of the audit log raised during the redo of an ADD entry, after
\* the student had been committed: the entry is on top of the redo stack
C11_Witness ==
  /\ response = Flash("Redo failed: store error")
  /\ redo_stack # <<>>
  /\ undo_stack # <<>>
  /\ RedoTop.action_type = "ADD"
  /\ RedoTop.student_id \in DOMAIN students

\* C12: whenever undo or redo reports a failure because a call to the
\* database raised (the write of the audit log that follows the commit
\* included), the students and the time entries are the same as before the
\* request, and the next undo (redo) of the entry pushed back ends with
\* the students it would have ended with had the failed request not been
\* made.
C12_StoreFailureNoPartialApplication ==
  [][ /\ (UndoFails \/ RedoFails) => UNCHANGED <<students, time_entries>>
      /\ UndoFails => undo(CurNext).students = undo(Cur).students
      /\ RedoFails => redo(CurNext).students = redo(Cur).students ]_vars

NothingFlashes == {"Nothing to undo.", "Nothing to redo."}

\* the request just served changed the students or the time entries
StoreChanged == <<students, time_entries>>' # <<students, time_entries>>

\* C13: every undo that changes the store appends exactly one audit-log
\* entry of kind UNDO whose details name the action type of the undone
\* entry, every redo that changes the store appends exactly one entry of
\* kind REDO, and an undo or redo that reports that there is nothing to
\* undo/redo, or a failure, appends none.
C13_UndoRedoLogged ==
  [][ /\ (StoreChanged /\ (Undo \/ UndoFails))
           => /\ action_log' = Append(action_log, LastLog')
              /\ LastLog'.action_type = "UNDO"
              /\ LastLog'.details = [original_action |-> UndoTop.action_type]
      /\ (StoreChanged /\ (Redo \/ RedoFails))
           => /\ action_log' = Append(action_log, LastLog')
              /\ LastLog'.action_type = "REDO"
      /\ (/\ response'.flash \in
                NothingFlashes \cup FailureFlashes \cup StoreFailureFlashes
          /\ (Undo \/ UndoFails \/ Redo \/ RedoFails))
           => action_log' = action_log ]_vars

\* C13 for the requests in which no call to the database raises
C13_UndoRedoLoggedNoFailure ==
  [][ /\ (StoreChanged /\ Undo)
           => /\ action_log' = Append(action_log, LastLog')
              /\ LastLog'.action_type = "UNDO"
              /\ LastLog'.details = [original_action |-> UndoTop.action_type]
      /\ (StoreChanged /\ Redo)
           => /\ action_log' = Append(action_log, LastLog')
              /\ LastLog'.action_type = "REDO"
      /\ (/\ response'.flash \in NothingFlashes \cup FailureFlashes
          /\ (Undo \/ Redo))
           => action_log' = action_log ]_vars

\* a request to clock in, and one to clock out, on either path
ClockInStep == ClockIn \/ StudentClockIn
ClockOutStep == ClockOut \/ StudentClockOut

\* the ids of the students and of the time entries
KnownIds == DOMAIN students \cup {e.student_id : e \in time_entries}

ClockInFlashes == {"Clocked in"}
ClockInRejections ==
  {"Student already clocked in.", "You are already clocked in.",
   "You have already completed the required hours. Clock-in is not allowed."}

\* the student has reached the target
Reached(student) ==
  student.total_hours > 0 /\ student.completed_hours >= student.total_hours

\* C16: with the requests served one at a time, every student has at most
\* one open time entry after any sequence of admin and self-service
\* clock-in/clock-out, add, edit, delete, undo and redo requests; a
\* clock-in on either path adds an entry only for a student without an open
\* entry, and one that is rejected leaves all time entries unchanged (the
\* student keeps exactly the one open entry).
C16_OneOpenEntry ==
  /\ [](\A id \in KnownIds : Cardinality(OpenEntries(Cur, id)) <= 1)
  /\ [][ \/ /\ UNCHANGED time_entries
            /\ response'.flash \notin ClockInFlashes
         \/ ~ClockInStep
         \/ \E id \in DOMAIN students :
              /\ OpenEntries(Cur, id) = {}
              /\ Cardinality(OpenEntries(CurNext, id)) = 1
              /\ time_entries' = time_entries \cup OpenEntries(CurNext, id)
              /\ response'.flash \in ClockInFlashes ]_vars

\* a self-service clock-in was rejected for a student who has an open entry
C16_Witness ==
  /\ response = Flash("You are already clocked in.")
  /\ session \in DOMAIN students
  /\ Cardinality(OpenEntries(Cur, session)) = 1
  /\ undo_stack # <<>>

\* C17: a clock-out on either path for a student without an open time entry
\* is rejected and changes nothing in the store; a clock-out for a student
\* with an open entry closes that student's open entry and no entry of
\* another student, and the student has no open entry after it.
C17_ClockOut ==
  [][ /\ \/ UNCHANGED <<students, time_entries, action_log>>
         \/ response'.flash = "Clocked out"
         \/ ~ClockOutStep
      /\ (response'.flash = "Clocked out" /\ ClockOutStep)
           => \E id \in DOMAIN students :
                /\ OpenEntries(Cur, id) # {}
                /\ OpenEntries(CurNext, id) = {}
                /\ \E e \in OpenEntries(Cur, id) :
                      /\ time_entries' \ time_entries \subseteq
                           {[e EXCEPT !.clock_out = t] : t \in Times}
                      /\ time_entries \ time_entries' = {e}
      /\ (/\ response'.flash = "Clocked out"
          /\ \A id \in DOMAIN students : OpenEntries(Cur, id) = {})
           => ~ClockOutStep
      /\ (/\ session \in DOMAIN students
          /\ OpenEntries(Cur, session) # {}
          /\ StudentClockOut)
           => /\ response' = Flash("Clocked out")
              /\ OpenEntries(CurNext, session) = {} ]_vars

\* a student clocked out on the self-service path while another student
\* has an open entry, which is still open
C17_Witness ==
  /\ response = Flash("Clocked out")
  /\ session \in DOMAIN students
  /\ OpenEntries(Cur, session) = {}
  /\ \E id \in DOMAIN students \ {session} : OpenEntries(Cur, id) # {}

\* C18: a self-service clock-in of a student who has reached the target
\* (total_hours > 0 and completed_hours >= total_hours) is rejected and
\* creates no time entry, while the admin clock-in for a student in that
\* state who has no open entry is accepted.
C18_HourLimitSelfServiceOnly ==
  [][ /\ (/\ session \in DOMAIN students
          /\ Reached(students[session])
          /\ StudentClockIn)
           => /\ UNCHANGED time_entries
              /\ response'.flash \in ClockInRejections
      /\ (/\ \A id \in DOMAIN students :
                Reached(students[id]) /\ OpenEntries(Cur, id) = {}
          /\ response'.status = 200
          /\ ClockIn)
           => /\ response' = Body("Clocked in")
              /\ \E e \in time_entries' \ time_entries :
                   /\ Reached(students[e.student_id])
                   /\ time_entries' = time_entries \cup {e} ]_vars

\* the self-service clock-in was rejected for a student who reached the
\* target by clocking out, and has no open entry
C18_Witness ==
  /\ response =
       Flash("You have already completed the required hours. Clock-in is not allowed.")
  /\ session \in DOMAIN students
  /\ Reached(students[session])
  /\ OpenEntries(Cur, session) = {}
  /\ \E e \in time_entries : e.student_id = session /\ e.clock_out # NoTime

\* C19: clock-in and clock-out, on the admin and on the self-service path,
\* accepted or rejected, leave the undo stack and the redo stack unchanged.
C19_ClockLeavesStacks ==
  [][ \/ UNCHANGED <<undo_stack, redo_stack>>
      \/ ~(ClockInStep \/ ClockOutStep) ]_vars

\* a student was clocked out while both stacks hold an entry
C19_Witness ==
  /\ response.flash = "Clocked out"
  /\ undo_stack # <<>>
  /\ redo_stack # <<>>

\* the response is a listing sorted by one of the sort keys
Sorted == "sort" \in DOMAIN response /\ response.sort \in SortNames

\* the sort key of the student listed at position i
ListedKey(i) ==
  SortKey(response.sort,
          get_student_snapshot(response.students[i], students[response.students[i]]))

\* C20: merge_sort is stable for every sort key and both directions: any
\* two students with equal sort keys are listed in the relative order they
\* have in the input, which is the order of their ids.
C20_MergeSortStable ==
  Sorted =>
    \A i, j \in DOMAIN response.students :
      (i < j /\ ListedKey(i) = ListedKey(j))
        => response.students[i] < response.students[j]

\* the queue entry of audit-log entry a
Queued(a) ==
  [id |-> a.id, action_type |-> a.action_type,
   student_name |-> a.student_name, student_id |-> a.student_id]

\* C15: the in-memory queue never holds more than 100 entries; after k
\* calls of log_action in a process (the audit log of the process holds k
\* entries) it holds the last min(k, 100) entries in the order they were
\* recorded, so the 101st call evicts the 1st entry, and every entry of the
\* queue is an entry the audit log holds.
C15_QueueHoldsLast100 ==
  LET k == Len(action_log)
      n == Len(action_log_queue)
  IN /\ n <= QueueMaxLen
     /\ n = Min(k, QueueMaxLen)
     /\ \A i \in 1 .. n : action_log_queue[i] = Queued(action_log[k - n + i])

\* the 101st call has evicted the first entry
C15_Witness ==
  /\ Len(action_log) = QueueMaxLen + 1
  /\ Len(action_log_queue) = QueueMaxLen
  /\ action_log_queue[1] = Queued(action_log[2])
  /\ action_log[1].id = 1

\* sequence p is a prefix of sequence q
IsPrefix(p, q) == Len(p) <= Len(q) /\ SubSeq(q, 1, Len(p)) = p

\* C14: the audit log is append-only: after every request (add, edit,
\* delete, clock in/out, undo, redo, the listing, the search, the activity
\* log page) the log before the request is a prefix of the log after it.
C14_LogAppendOnly ==
  [][IsPrefix(action_log, action_log')]_vars

\* the activity log page was served while the log holds entries of an add
\* and its undo
C14_Witness ==
  /\ "actions" \in DOMAIN response
  /\ Len(response.actions) >= 2
  /\ LastLog.action_type = "UNDO"
  /\ response.actions[1] = LastLog.id


\* C21: in every reachable state every student's total_hours and
\* completed_hours are integers that are not negative, whatever integers
\* the forms of add_student and edit_student hold and whatever clock-outs,
\* undos and redos follow.
C21_HoursNonNegative ==
  \A id \in DOMAIN students :
    /\ students[id].total_hours \in Nat
    /\ students[id].completed_hours \in Nat

\* the hours of every student are integers
C21_HoursAreIntegers ==
  \A id \in DOMAIN students :
    /\ students[id].total_hours \in Int
    /\ students[id].completed_hours \in Int


\* C22: when the store write of an add, edit or delete fails, the undo
\* stack and the redo stack are unchanged: no entry is pushed and the redo
\* stack is not cleared for a mutation that did not happen.  In these runs
\* a server error is the response of the failed writes only.
C22_FailedWriteLeavesStacks ==
  [][ response'.status = 500 => UNCHANGED <<undo_stack, redo_stack>> ]_vars

\* a failed write of add_student leaves both stacks unchanged
C22_FailedAddLeavesStacks ==
  [][ \/ UNCHANGED <<undo_stack, redo_stack>>
      \/ ~AddStudentFails ]_vars

\* a failed write never changes the students or the time entries
C22_FailedWriteLeavesStore ==
  [][ response'.status = 500 => UNCHANGED <<students, time_entries, action_log>> ]_vars


\* C23: the stacks are shared by the threads without a lock, so two undo
\* requests can both pass the test for a non-empty stack while it holds
\* one entry, and the second then pops from an empty stack.  That pop is an
\* error outside the handled failure path: the request of a thread that
\* reaches the pop with the stack empty ends in a server error, nothing is
\* flashed, no entry is pushed back, and the store and the stacks stay as
\* they are.
C23_EmptyPopUnhandled ==
  [][ \A t \in Threads :
        (threads[t].pc = "pop" /\ undo_stack = <<>> /\ threads'[t] # threads[t])
          => /\ response' = ServerError
             /\ threads'[t] = IdleThread
             /\ UNCHANGED <<students, time_entries, action_log,
                            action_log_queue, undo_stack, redo_stack>> ]_vars

\* one student was added and one undo has been carried out, so the undo
\* stack never held more than its one ADD entry: both requests passed the
\* test on that entry, one popped it and undid the add, and the other has
\* ended in a server error on the empty stack
C23_Witness ==
  /\ response = ServerError
  /\ undo_stack = <<>>
  /\ Len(redo_stack) = 1
  /\ Len(action_log) = 2
  /\ action_log[1].action_type = "ADD"
  /\ action_log[2].action_type = "UNDO"
  /\ threads = NoThreads

\* two requests are past the test while the stack holds one entry
C23_BothPassedCheck ==
  /\ Len(undo_stack) = 1
  /\ \A t \in Threads : threads[t].pc = "pop"


\* C24: when the requests run one at a time and no call to the store
\* fails, the history is consistent with the store: the student of an ADD
\* or EDIT entry on top of the undo stack exists and the student of a
\* DELETE entry on top of it does not; the student of an ADD entry on top
\* of the redo stack does not exist and the student of a DELETE entry on
\* top of it does.  So undo and redo never answer that the student was not
\* found, also when the store hands out the id of a deleted student again.
C24_HistoryConsistent ==
  /\ undo_stack # <<>> =>
       /\ UndoTop.action_type \in {"ADD", "EDIT"}
            => UndoTop.student_id \in DOMAIN students
       /\ UndoTop.action_type = "DELETE"
            => UndoTop.student_id \notin DOMAIN students
  /\ redo_stack # <<>> =>
       /\ RedoTop.action_type = "ADD"
            => RedoTop.student_id \notin DOMAIN students
       /\ RedoTop.action_type = "DELETE"
            => RedoTop.student_id \in DOMAIN students
  /\ response.flash \notin FailureFlashes

\* the store has handed out the id of a deleted student again: the ADD
\* entry on top of the undo stack and the DELETE entry below it name the
\* same id
C24_Witness ==
  /\ Len(undo_stack) >= 2
  /\ UndoTop.action_type = "ADD"
  /\ undo_stack[Len(undo_stack) - 1].action_type = "DELETE"
  /\ undo_stack[Len(undo_stack) - 1].student_id = UndoTop.student_id
  /\ UndoTop.student_id \in DOMAIN students

\* after an undo on that history: the DELETE entry is on top of the undo
\* stack, the ADD entry on top of the redo stack, and the id is free
C24_WitnessUndone ==
  /\ undo_stack # <<>> /\ redo_stack # <<>>
  /\ UndoTop.action_type = "DELETE"
  /\ RedoTop.action_type = "ADD"
  /\ RedoTop.student_id = UndoTop.student_id


C26_TimeEntriesHaveStudent ==
  /\ [](\A e \in time_entries : e.student_id \in DOMAIN students)
  /\ [][ \/ action_log' = action_log
         \/ action_log'[Len(action_log')].action_type # "UNDO"
         \/ action_log'[Len(action_log')].details.original_action # "DELETE"
         \/ \A e \in time_entries' :
              e.student_id # action_log'[Len(action_log')].student_id ]_vars

\* a student who had a time entry has been deleted by delete_student: the
\* first time entry is gone and a later one, of another student, is left
C26_Witness ==
  /\ \E e \in time_entries : e.id = 2
  /\ \A e \in time_entries : e.id # 1
  /\ LastLog.action_type = "DELETE"

\* the same after an undo of an ADD entry
C26_WitnessUndo ==
  /\ \E e \in time_entries : e.id = 2
  /\ \A e \in time_entries : e.id # 1
  /\ LastLog.action_type = "UNDO"
  /\ LastLog.details.original_action = "ADD"

\* the student of the session was deleted and is back after the undo, and
\* the store holds no time entry
C26_WitnessRestored ==
  /\ action_log # <<>>
  /\ LastLog.action_type = "UNDO"
  /\ LastLog.details.original_action = "DELETE"
  /\ time_entries = {}
  /\ Len(action_log) = 2
  /\ session = LastLog.student_id

====
